---- MODULE Spec2Model ----
(***************************************************************************)
(* Model of camaraajcv/contratos_uniao: the paginated fetch-and-normalise   *)
(* pipeline consultar_contratos, in its two variants                        *)
(*   services      : src/services.py      (library function)               *)
(*   app           : src/streamlit_app.py (the function, called directly or *)
(*                   by the Streamlit page: input gate, "vigentes" filter,  *)
(*                   display)                                               *)
(* The optional filters (cnpj, data_inicio, data_fim, valor_minimo) are     *)
(* only copied into the query string and are left to the upstream.          *)
(* The upstream REST API is the environment: each request draws a response. *)
(***************************************************************************)
EXTENDS Integers, Sequences, FiniteSets, TLC

(***************************************************************************)
(* Bounds of the model.                                                    *)
(***************************************************************************)
\* largest max_paginas a caller of services.consultar_contratos passes
MaxPaginas == 3
\* number of contract records the upstream holds for one query
MaxRecords == 2
\* calendar days are 0 .. MaxDay
MaxDay == 2
\* instants of the clock inside one day (tick 0 is midnight)
TicksPerDay == 2

\* default of the parameter max_paginas
DefaultMaxPaginas == 50

Days == 0..MaxDay

(***************************************************************************)
(* JSON / Python values.  A dict is a function from its present keys to    *)
(* values; a key that is absent is not in the DOMAIN.                      *)
(***************************************************************************)
Null == [t |-> "null"]
Str(s) == [t |-> "str", v |-> s]
Num(n) == [t |-> "num", v |-> n]
\* a JSON string that holds the ISO date (YYYY-MM-DD) of day d
IsoDate(d) == [t |-> "isodate", day |-> d]
\* a JSON string that holds the decimal numeral of n
NumStr(n) == [t |-> "numstr", v |-> n]
Obj(f) == [t |-> "obj", f |-> f]
EmptyDict == [k \in {} |-> Null]

\* pandas cell values produced by the conversions
Ts(n) == [t |-> "ts", v |-> n]
NaT == [t |-> "nat"]
NaN == [t |-> "nan"]

\* the result of an expression that raised AttributeError on a value of
\* Python type ty
Raised(ty) == [t |-> "raised", of |-> ty]
IsRaised(v) == v.t = "raised"

PyType(v) ==
  CASE v.t = "null" -> "NoneType"
    [] v.t = "str" -> "str"
    [] v.t = "isodate" -> "str"
    [] v.t = "numstr" -> "str"
    [] v.t = "num" -> "int"
    [] OTHER -> "dict"

\* Python truth value: None, "", 0 and {} are false
Truthy(v) ==
  CASE v.t = "null" -> FALSE
    [] v.t = "str" -> v.v # ""
    [] v.t = "num" -> v.v # 0
    [] v.t = "obj" -> DOMAIN v.f # {}
    [] OTHER -> TRUE

\* d.get(k, default) on a dict d
DictGet(d, k, default) == IF k \in DOMAIN d THEN d[k] ELSE default

\* v.get(k, default) on the value of an expression: only a dict has .get
MethodGet(v, k, default) ==
  IF IsRaised(v) THEN v
  ELSE IF v.t = "obj" THEN DictGet(v.f, k, default)
  ELSE Raised(PyType(v))

\* "a if a is not None else b", which is not what "or" does
PyOr_nonnull(a, b) ==
  IF IsRaised(a) THEN a ELSE IF a # Null THEN a ELSE b

\* a or b
PyOr(a, b) ==
  IF IsRaised(a) THEN a ELSE IF Truthy(a) THEN a ELSE b

(***************************************************************************)
(* Output columns.                                                         *)
(***************************************************************************)
ColunasServices ==
  << "numeroContrato", "objeto", "situacao", "valorInicial", "valorFinal",
     "dataInicioVigencia", "dataFimVigencia", "nomeFornecedor",
     "cnpjFornecedor", "codigoOrgao", "nomeOrgao" >>

ColunasApp ==
  << "numeroContrato", "objeto", "situacao", "valorInicial", "valorFinal",
     "dataInicioVigencia", "dataFimVigencia", "nomeFornecedor",
     "cnpjFornecedor", "codigoUGExecutora", "nomeUGExecutora",
     "codigoUGResponsavel", "nomeUGResponsavel", "codigoOrgao", "nomeOrgao" >>

Colunas(v) == IF v = "app" THEN ColunasApp ELSE ColunasServices

\* contrato.get(k1, {}).get(k2)
Get2(c, k1, k2) ==
  MethodGet(DictGet(c, k1, Obj(EmptyDict)), k2, Null)

\* contrato.get(k1, {}).get(k2, {}).get(k3)
Get3(c, k1, k2, k3) ==
  MethodGet(MethodGet(DictGet(c, k1, Obj(EmptyDict)), k2, Obj(EmptyDict)),
            k3, Null)

\* the value of one entry of the dict literal appended to registros
Campo(c, col) ==
  CASE col = "numeroContrato" ->
         PyOr(DictGet(c, "numero", Null), DictGet(c, "numeroContrato", Null))
    [] col = "objeto" -> DictGet(c, "objeto", Null)
    [] col = "situacao" -> DictGet(c, "situacaoContrato", Null)
    [] col = "valorInicial" -> DictGet(c, "valorInicialCompra", Null)
    [] col = "valorFinal" -> DictGet(c, "valorFinalCompra", Null)
    [] col = "dataInicioVigencia" -> DictGet(c, "dataInicioVigencia", Null)
    [] col = "dataFimVigencia" -> DictGet(c, "dataFimVigencia", Null)
    [] col = "nomeFornecedor" ->
         PyOr(Get2(c, "fornecedor", "nome"),
              Get2(c, "fornecedor", "razaoSocialReceita"))
    [] col = "cnpjFornecedor" ->
         PyOr(Get2(c, "fornecedor", "cnpjFormatado"),
              Get2(c, "fornecedor", "cnpj"))
    [] col = "codigoUGExecutora" -> Get2(c, "unidadeGestoraCompras", "codigo")
    [] col = "nomeUGExecutora" -> Get2(c, "unidadeGestoraCompras", "nome")
    [] col = "codigoUGResponsavel" -> Get2(c, "unidadeGestora", "codigo")
    [] col = "nomeUGResponsavel" -> Get2(c, "unidadeGestora", "nome")
    [] col = "codigoOrgao" ->
         Get3(c, "unidadeGestora", "orgaoVinculado", "codigoSIAFI")
    [] OTHER -> Get3(c, "unidadeGestora", "orgaoVinculado", "nome")

\* the dict appended to registros for one raw contract
Registro(v, c) ==
  [col \in {Colunas(v)[i] : i \in DOMAIN Colunas(v)} |-> Campo(c, col)]

\* the entries of the literal are evaluated in order: the first one that
\* raises aborts the call
RegistroErro(v, c) ==
  LET cols == Colunas(v)
      bad == {i \in DOMAIN cols : IsRaised(Campo(c, cols[i]))}
  IN IF bad = {} THEN Null
     ELSE Campo(c, cols[CHOOSE i \in bad : \A j \in bad : i <= j])

\* pd.to_datetime(x, errors="coerce") on one cell
ToDatetime(x) == IF x.t = "isodate" THEN Ts(x.day * TicksPerDay) ELSE NaT

\* pd.to_numeric(x, errors="coerce") on one cell
ToNumeric(x) ==
  IF x.t = "num" THEN x ELSE IF x.t = "numstr" THEN Num(x.v) ELSE NaN

Converter(r) ==
  [col \in DOMAIN r |->
     IF col \in {"dataInicioVigencia", "dataFimVigencia"} THEN ToDatetime(r[col])
     ELSE IF col \in {"valorInicial", "valorFinal"} THEN ToNumeric(r[col])
     ELSE r[col]]

(***************************************************************************)
(* DataFrames: the column labels and the rows, in order.                   *)
(***************************************************************************)
DataFrame(cols, rows) == [columns |-> cols, rows |-> rows]
\* pd.DataFrame()
EmptyDF == DataFrame(<< >>, << >>)
\* df.empty
DFEmpty(df) == Len(df.columns) = 0 \/ Len(df.rows) = 0

\* the filter taken on the responsible unit instead of the executing unit
FiltrarUG_responsavel(df, ug) ==
  DataFrame(df.columns,
            SelectSeq(df.rows, LAMBDA r : r["codigoUGResponsavel"] = ug))

\* df[df["codigoUGExecutora"] == ug_executora]
FiltrarUG(df, ug) ==
  DataFrame(df.columns,
            SelectSeq(df.rows, LAMBDA r : r["codigoUGExecutora"] = ug))

\* df[df["dataFimVigencia"] >= hoje]; a comparison with NaT is False
FiltrarVigentes(df, agora) ==
  DataFrame(df.columns,
            SelectSeq(df.rows,
                      LAMBDA r : /\ r["dataFimVigencia"].t = "ts"
                                 /\ r["dataFimVigencia"].v >= agora.v))

\* pd.Timestamp.today() on day d at tick k of that day
TimestampToday(d, k) == Ts(d * TicksPerDay + k)

(***************************************************************************)
(* Exceptions and what the Streamlit page shows.                           *)
(***************************************************************************)
\* a formatted message: the fixed text (written here without accents) and
\* the values interpolated into it
Msg(fmt, args) == [fmt |-> fmt, args |-> args]
NoMsg == Msg("", << >>)

MsgObrigatorio == Msg("O parametro 'codigo_orgao' e obrigatorio!", << >>)
MsgToken == Msg("Token invalido ou expirado!", << >>)
\* f"Erro na API: {response.status_code} - {response.text}"
MsgErroAPI(resp) == Msg("Erro na API: {} - {}", << Num(resp.status), Str(resp.text) >>)
\* "'NoneType' object has no attribute 'get'"
MsgAttribute(r) == Msg("'{}' object has no attribute 'get'", << Str(r.of) >>)
MsgConnection == Msg("connection error", << >>)

\* what a call of consultar_contratos has produced so far
Pending == [kind |-> "pending", exc |-> "", msg |-> NoMsg, df |-> EmptyDF]
Return(df) == [kind |-> "ok", exc |-> "", msg |-> NoMsg, df |-> df]
Raise(exc, msg) == [kind |-> "raise", exc |-> exc, msg |-> msg, df |-> EmptyDF]

\* what the page shows: nothing yet, st.warning, st.error or st.dataframe
Tela(kind, msg, df) == [kind |-> kind, msg |-> msg, df |-> df]
TelaVazia == Tela("blank", NoMsg, EmptyDF)
MsgDigite == Msg("Digite o Codigo do Orgao e da UG Executora para prosseguir!", << >>)
MsgNenhum == Msg("Nenhum contrato encontrado para os filtros informados.", << >>)
MsgNenhumVigente ==
  Msg("Nenhum contrato vigente encontrado para os filtros informados.", << >>)
MsgEncontrados(n) == Msg("{} contratos encontrados", << Num(n) >>)

(***************************************************************************)
(* The status check after each request.                                    *)
(***************************************************************************)
\* services.py, with the branch for the other statuses left out
StatusServices_ignora(resp) ==
  IF resp.status = 401 THEN Raise("Exception", MsgToken) ELSE Pending

\* services.py: 401 has its own message
StatusServices(resp) ==
  IF resp.status = 401 THEN Raise("Exception", MsgToken)
  ELSE IF resp.status # 200 THEN Raise("Exception", MsgErroAPI(resp))
  ELSE Pending

\* streamlit_app.py: one message for every status other than 200
StatusApp(resp) ==
  IF resp.status # 200 THEN Raise("Exception", MsgErroAPI(resp)) ELSE Pending

CheckStatus(v, resp) == IF v = "app" THEN StatusApp(resp) ELSE StatusServices(resp)

\* the loop condition off by one
LoopCond_maisum(p, maxp) == p <= maxp + 1

\* the condition of the while loop
LoopCond(p, maxp) == p <= maxp

\* services.py: "if not codigo_orgao"
CodigoInvalido(co) == ~Truthy(co)

\* streamlit_app.py: "if not codigo_orgao or not ug_executora"
GateApp(co, ug) == ~Truthy(co) \/ ~Truthy(ug)

(***************************************************************************)
(* Lines after the loop: the table consultar_contratos returns.            *)
(***************************************************************************)
Construir(v, dados, ug) ==
  IF dados = << >> THEN Return(EmptyDF)
  ELSE
    LET erros == {i \in DOMAIN dados : RegistroErro(v, dados[i]) # Null}
    IN IF erros # {}
       THEN Raise("AttributeError",
                  MsgAttribute(RegistroErro(v,
                     dados[CHOOSE i \in erros : \A j \in erros : i <= j])))
       ELSE
         LET df == DataFrame(Colunas(v),
                             [i \in DOMAIN dados |-> Converter(Registro(v, dados[i]))])
         IN IF v = "app" THEN Return(FiltrarUG(df, ug)) ELSE Return(df)

\* the except clause of the page: st.error(str(e))
TelaErro(o) == Tela("error", o.msg, EmptyDF)

(***************************************************************************)
(* Inputs: what callers pass and what the upstream can answer.             *)
(***************************************************************************)
\* codigo_orgao passed to services.consultar_contratos
CodigosServices == {Null, Str(""), Str("26000")}
\* the two text inputs of the page (st.text_input yields a string)
CodigosApp == {Str(""), Str("26000")}
UGsApp == {Str(""), Str("A"), Str("B")}
\* codigo_orgao and ug_executora passed to streamlit_app.consultar_contratos
\* by a caller other than the page
CodigosDireto == {Str(""), Str("26000")}
UGsDireto == {Str("A")}

Fornecedor ==
  Obj([nome |-> Str("ACME"), razaoSocialReceita |-> Str("ACME SA"),
       cnpjFormatado |-> Str("11.111/0001-11"), cnpj |-> Str("11111000111")])
Orgao == Obj([codigoSIAFI |-> Str("26000"), nome |-> Str("MEC")])
UGCompras(c) == Obj([codigo |-> Str(c), nome |-> Str("Compras")])
UGGestora(org) == Obj([codigo |-> Str("R"), nome |-> Str("Gestora"),
                       orgaoVinculado |-> org])

\* a contract with every key present
Contrato(num, ugc, fim) ==
  [numero |-> Str(num), numeroContrato |-> Str("NC"), objeto |-> Str("obj"),
   situacaoContrato |-> Str("Ativo"), valorInicialCompra |-> Num(100),
   valorFinalCompra |-> NumStr(120), dataInicioVigencia |-> IsoDate(0),
   dataFimVigencia |-> fim, fornecedor |-> Fornecedor,
   unidadeGestoraCompras |-> ugc, unidadeGestora |-> UGGestora(Orgao)]

\* the raw records the upstream can return
RawRecords ==
  {Contrato("1", UGCompras("A"), IsoDate(d)) : d \in Days}
  \cup {Contrato("2", UGCompras("B"), IsoDate(MaxDay)),
        Contrato("4", UGCompras("A"), Str("sem data")),
        EmptyDict,
        [numero |-> Str("5"), fornecedor |-> Obj(EmptyDict)],
        [numero |-> Str("6"), fornecedor |-> Null],
        [numero |-> Str("7"), unidadeGestoraCompras |-> Null],
        [numero |-> Str("8"), unidadeGestora |-> UGGestora(Null)]}

\* the pages (JSON arrays) of at most n records
Pages(n) == UNION {[1..k -> RawRecords] : k \in 0..n}

ErrorStatuses == {401, 500}
ErrorBodies == {"denied"}

\* response.status_code, response.text, response.json()
Responses(n) ==
  {[status |-> 200, text |-> "", json |-> p] : p \in Pages(n)}
  \cup {[status |-> st, text |-> b, json |-> << >>] :
          st \in ErrorStatuses, b \in ErrorBodies}

(***************************************************************************)
(* State.                                                                  *)
(***************************************************************************)
VARIABLES
  variant,        \* "none", "services" or "app": whose consultar_contratos runs
  na_pagina,      \* the call is made by the Streamlit page
  pc,             \* "idle", "loop", "build", "returned", "done"
  codigo_orgao,   \* parameter / text input
  ug_executora,   \* parameter / text input (app)
  vigentes_hoje,  \* checkbox (app)
  max_paginas,    \* parameter
  pagina,         \* the page counter
  todos_dados,    \* the raw records accumulated
  requests,       \* params of the GET requests issued, in order
  responses,      \* the responses received, in order
  outcome,        \* what the call returned or raised
  hoje,           \* pd.Timestamp.today() read by the page, Null before
  tela            \* what the page shows

vars == << variant, na_pagina, pc, codigo_orgao, ug_executora, vigentes_hoje,
           max_paginas, pagina, todos_dados, requests, responses, outcome, hoje, tela >>

Init ==
  /\ variant = "none"
  /\ na_pagina = FALSE
  /\ pc = "idle"
  /\ codigo_orgao = Null
  /\ ug_executora = Null
  /\ vigentes_hoje = FALSE
  /\ max_paginas = DefaultMaxPaginas
  /\ pagina = 0
  /\ todos_dados = << >>
  /\ requests = << >>
  /\ responses = << >>
  /\ outcome = Pending
  /\ hoje = Null
  /\ tela = TelaVazia

\* a raise leaves the function; in the page the except clause shows it
Finish(pg, o) ==
  /\ outcome' = o
  /\ IF pg
     THEN IF o.kind = "raise"
          THEN pc' = "done" /\ tela' = TelaErro(o)
          ELSE pc' = "returned" /\ tela' = tela
     ELSE pc' = "done" /\ tela' = tela

\* services.consultar_contratos(codigo_orgao=co, max_paginas=mp): lines 20-24
ServicesCall ==
  /\ pc = "idle"
  /\ \E co \in CodigosServices, mp \in 0..MaxPaginas :
       /\ variant' = "services"
       /\ na_pagina' = FALSE
       /\ codigo_orgao' = co
       /\ max_paginas' = mp
       /\ IF CodigoInvalido(co)
          THEN /\ outcome' = Raise("ValueError", MsgObrigatorio)
               /\ pc' = "done"
               /\ pagina' = pagina
          ELSE /\ outcome' = outcome
               /\ pc' = "loop"
               /\ pagina' = 1
  /\ UNCHANGED << ug_executora, vigentes_hoje, todos_dados, requests, responses,
                  hoje, tela >>

\* streamlit_app.consultar_contratos(co, ug, max_paginas=mp) called
\* directly: lines 9-20
AppCall ==
  /\ pc = "idle"
  /\ \E co \in CodigosDireto, ug \in UGsDireto, mp \in 0..MaxPaginas :
       /\ variant' = "app"
       /\ na_pagina' = FALSE
       /\ codigo_orgao' = co
       /\ ug_executora' = ug
       /\ max_paginas' = mp
       /\ pc' = "loop"
       /\ pagina' = 1
  /\ UNCHANGED << vigentes_hoje, todos_dados, requests, responses, outcome,
                  hoje, tela >>

\* the page, button pressed: lines 112-128 and 19-20
AppBuscar ==
  /\ pc = "idle"
  /\ \E co \in CodigosApp, ug \in UGsApp, vig \in BOOLEAN :
       /\ variant' = "app"
       /\ na_pagina' = TRUE
       /\ codigo_orgao' = co
       /\ ug_executora' = ug
       /\ vigentes_hoje' = vig
       /\ IF GateApp(co, ug)
          THEN /\ tela' = Tela("warning", MsgDigite, EmptyDF)
               /\ pc' = "done"
               /\ pagina' = pagina
          ELSE /\ tela' = tela
               /\ pc' = "loop"
               /\ pagina' = 1
  /\ UNCHANGED << max_paginas, todos_dados, requests, responses, outcome, hoje >>

\* one iteration of the while loop
Request ==
  /\ pc = "loop"
  /\ LoopCond(pagina, max_paginas)
  /\ \E resp \in Responses(MaxRecords - Len(todos_dados)) :
       /\ requests' = Append(requests,
                             [pagina |-> pagina, codigoOrgao |-> codigo_orgao])
       /\ responses' = Append(responses, resp)
       /\ \E st \in {CheckStatus(variant, resp)} :
             IF st.kind = "raise"
             THEN /\ Finish(na_pagina, st)
                  /\ UNCHANGED << pagina, todos_dados >>
             ELSE IF resp.json = << >>
             THEN /\ pc' = "build"
                  /\ UNCHANGED << pagina, todos_dados, outcome, tela >>
             ELSE /\ todos_dados' = todos_dados \o resp.json
                  /\ pagina' = pagina + 1
                  /\ UNCHANGED << pc, outcome, tela >>
  /\ UNCHANGED << variant, na_pagina, codigo_orgao, ug_executora, vigentes_hoje,
                  max_paginas, hoje >>

\* requests.get raises (no response): the exception leaves the function
RequestFails ==
  /\ pc = "loop"
  /\ LoopCond(pagina, max_paginas)
  /\ requests' = Append(requests,
                        [pagina |-> pagina, codigoOrgao |-> codigo_orgao])
  /\ Finish(na_pagina, Raise("ConnectionError", MsgConnection))
  /\ UNCHANGED << variant, na_pagina, codigo_orgao, ug_executora, vigentes_hoje,
                  max_paginas, pagina, todos_dados, responses, hoje >>

\* after the loop: the table is built and returned
Build ==
  /\ \/ pc = "build"
     \/ pc = "loop" /\ ~LoopCond(pagina, max_paginas)
  /\ \E o \in {Construir(variant, todos_dados, ug_executora)} :
       Finish(na_pagina, o)
  /\ UNCHANGED << variant, na_pagina, codigo_orgao, ug_executora, vigentes_hoje,
                  max_paginas, pagina, todos_dados, requests, responses, hoje >>

\* the page after the call returned: lines 130-142
AppShow ==
  /\ pc = "returned"
  /\ pc' = "done"
  /\ IF DFEmpty(outcome.df)
     THEN /\ tela' = Tela("warning", MsgNenhum, outcome.df)
          /\ hoje' = hoje
     ELSE IF vigentes_hoje
     THEN \E d \in Days, k \in 0..(TicksPerDay - 1) :
            /\ hoje' = TimestampToday(d, k)
            /\ LET df == FiltrarVigentes(outcome.df, hoje')
               IN tela' = IF DFEmpty(df)
                          THEN Tela("warning", MsgNenhumVigente, df)
                          ELSE Tela("table", MsgEncontrados(Len(df.rows)), df)
     ELSE /\ tela' = Tela("table", MsgEncontrados(Len(outcome.df.rows)), outcome.df)
          /\ hoje' = hoje
  /\ UNCHANGED << variant, na_pagina, codigo_orgao, ug_executora, vigentes_hoje,
                  max_paginas, pagina, todos_dados, requests, responses, outcome >>

Next ==
  \/ ServicesCall
  \/ AppCall
  \/ AppBuscar
  \/ Request
  \/ RequestFails
  \/ Build
  \/ AppShow

Spec == Init /\ [][Next]_vars

\* the steps of a call that has started
Run == Request \/ RequestFails \/ Build \/ AppShow

(***************************************************************************)
(* Helpers of the properties.                                              *)
(***************************************************************************)
Max0(n) == IF n < 0 THEN 0 ELSE n

RECURSIVE Flatten(_)
\* the records of a sequence of pages, page after page
Flatten(pages) ==
  IF pages = << >> THEN << >> ELSE Head(pages) \o Flatten(Tail(pages))

RECURSIVE IsSubseq(_, _)
\* a is obtained from b by deleting elements
IsSubseq(a, b) ==
  IF a = << >> THEN TRUE
  ELSE IF b = << >> THEN FALSE
  ELSE IF Head(a) = Head(b) THEN IsSubseq(Tail(a), Tail(b))
  ELSE IsSubseq(a, Tail(b))

\* every request got a response and every response was a success
AllSucceeded ==
  /\ Len(responses) = Len(requests)
  /\ \A i \in DOMAIN responses : responses[i].status = 200

\* the calendar day of a timestamp
DayOf(ts) == ts.v \div TicksPerDay

\* the normalised table before the executing-unit filter
Normalizado(v, dados) == [i \in DOMAIN dados |-> Converter(Registro(v, dados[i]))]

(***************************************************************************)
(* C3. Every fetch terminates; pages 1, 2, 3, ... are requested one at a   *)
(* time in increasing order; the loop stops at the first empty page or     *)
(* when the counter exceeds max_paginas, so at most max_paginas requests   *)
(* are issued (none when max_paginas < 1) and page max_paginas + 1 is      *)
(* never requested.                                                        *)
(***************************************************************************)
C3_PagingShape ==
  /\ \A i \in DOMAIN requests : requests[i].pagina = i
  /\ Len(requests) <= Max0(max_paginas)
  /\ \A i \in DOMAIN requests : requests[i].pagina # max_paginas + 1
  /\ \A i \in DOMAIN responses :
       i < Len(responses) => responses[i].status = 200 /\ responses[i].json # << >>
  /\ (responses # << >> /\ responses[Len(responses)].json = << >>) => pc # "loop"
  /\ pc = "loop" => pagina = Len(requests) + 1

\* what is left of a started call: the requests the cap still allows and
\* the stages after the loop
Remaining ==
  2 * (Max0(max_paginas) - Len(requests))
  + (CASE pc = "loop" -> 3 [] pc = "build" -> 2 [] pc = "returned" -> 1
       [] OTHER -> 0)

\* a started call always has a next step before its end
C3_NotStuck ==
  /\ (pc = "loop" /\ LoopCond(pagina, max_paginas)) => ENABLED Request
  /\ (pc = "build" \/ (pc = "loop" /\ ~LoopCond(pagina, max_paginas))) =>
        Construir(variant, todos_dados, ug_executora).kind \in {"ok", "raise"}
  /\ pc = "returned" => ENABLED AppShow

\* C3: the paging shape holds in every state, a started call is never stuck
\* before its end, and each of its steps strictly decreases Remaining, which
\* is never negative: every fetch ends after at most max_paginas requests
C3_Terminates ==
  /\ [](C3_PagingShape /\ Remaining >= 0 /\ C3_NotStuck)
  /\ [][pc # "idle" => Remaining' < Remaining]_vars

\* the page cap, not an empty page, ended a fetch of two pages
C3_Witness ==
  /\ variant = "services" /\ pc = "done" /\ outcome.kind = "ok"
  /\ max_paginas = 2 /\ Len(requests) = 2
  /\ responses[2].json # << >>

(***************************************************************************)
(* C4. With an absent or empty agency code no HTTP request is sent and the *)
(* outcome is the validation error.                                        *)
(***************************************************************************)
\* C4: once a call was made with a codigo_orgao that is None or "", no
\* request is ever sent and the call ends in the validation outcome
\* (ValueError from the function, or the warning of the page's input gate)
C4_ValidationBeforeRequest ==
  (pc # "idle" /\ ~Truthy(codigo_orgao)) =>
     /\ requests = << >>
     /\ pc = "done" =>
          \/ outcome = Raise("ValueError", MsgObrigatorio)
          \/ /\ na_pagina /\ outcome = Pending
             /\ tela = Tela("warning", MsgDigite, EmptyDF)

(***************************************************************************)
(* C10. The executing-unit filter returns exactly the records whose        *)
(* codigoUGExecutora equals the caller's code, in their original order.    *)
(***************************************************************************)
\* C10: the rows returned all carry the caller's code, are as many as the
\* normalised rows that carry it, and are a subsequence of the normalised rows
C10_ExecutingUnitFilter ==
  (variant = "app" /\ outcome.kind = "ok" /\ todos_dados # << >>) =>
     LET n == Normalizado("app", todos_dados)
         r == outcome.df.rows
     IN /\ \A i \in DOMAIN r : r[i]["codigoUGExecutora"] = ug_executora
        /\ Len(r) = Cardinality({i \in DOMAIN n :
                                   n[i]["codigoUGExecutora"] = ug_executora})
        /\ IsSubseq(r, n)

\* of two fetched records one is kept and one, of another unit, is dropped
C10_Witness ==
  /\ variant = "app" /\ outcome.kind = "ok" /\ Len(todos_dados) = 2
  /\ Len(outcome.df.rows) = 1
  /\ ug_executora = Str("A")
  /\ Get2(todos_dados[1], "unidadeGestoraCompras", "codigo") = Str("B")
  /\ outcome.df.rows[1] = Converter(Registro("app", todos_dados[2]))

(***************************************************************************)
(* C2. A page request answered with a status other than 200 ends the call  *)
(* in an error: nothing is returned, the page is not requested again and   *)
(* no later page is requested.                                             *)
(***************************************************************************)
\* the call failed on response i, the last one, and returned nothing
FailedAt(i) ==
  /\ i = Len(responses) /\ Len(requests) = i
  /\ \A j \in DOMAIN requests : requests[j].pagina = j
  /\ pc = "done"
  /\ outcome.kind = "raise" /\ outcome.df = EmptyDF
  /\ na_pagina => tela = TelaErro(outcome)

\* C2 as claimed: a non-200 response is the last one, the call raised and
\* returned nothing, and the error carries the status code and the body
C2_ErrorCarriesStatusAndBody ==
  \A i \in DOMAIN responses :
     responses[i].status # 200 =>
        FailedAt(i) /\ outcome.msg = MsgErroAPI(responses[i])

\* C2 as amended: the same, except that services.py reports 401 by a fixed
\* message that carries neither the status code nor the body
C2_FailFast ==
  \A i \in DOMAIN responses :
     responses[i].status # 200 =>
        /\ FailedAt(i)
        /\ outcome.msg = IF variant = "services" /\ responses[i].status = 401
                         THEN MsgToken ELSE MsgErroAPI(responses[i])

\* page 2 failed after page 1 had delivered records
C2_Witness ==
  /\ Len(responses) = 2 /\ responses[2].status = 500
  /\ todos_dados # << >> /\ outcome.kind = "raise" /\ pc = "done"

(***************************************************************************)
(* C1. With a non-empty agency code and only successful requests,          *)
(* services.consultar_contratos returns one record per raw record of the   *)
(* pages before the first empty page or the page cap, in upstream order.   *)
(***************************************************************************)
\* C1: a services call with a non-empty code whose requests all succeeded
\* returns the normalised raw records of the pages received, in order
C1_OneRecordPerRawRecord ==
  (variant = "services" /\ pc = "done" /\ Truthy(codigo_orgao) /\ AllSucceeded) =>
     /\ outcome.kind = "ok"
     /\ LET raw == Flatten([i \in DOMAIN responses |-> responses[i].json])
            rows == outcome.df.rows
        IN /\ Len(rows) = Len(raw)
           /\ \A i \in DOMAIN rows :
                rows[i] = Converter(Registro("services", raw[i]))

(***************************************************************************)
(* C5. A nested object that is absent, empty or null never makes           *)
(* normalisation raise: the fields read through it are None and the record *)
(* is emitted.                                                             *)
(***************************************************************************)
\* the nested object under key k of contract c is absent, empty or null
NestedMissing(c, k) ==
  \/ k \notin DOMAIN c
  \/ c[k] = Null
  \/ c[k] = Obj(EmptyDict)

\* C5: no call ends in AttributeError, and a record whose nested object is
\* missing is emitted with None in the fields read through it
C5_MissingNestedNeverRaises ==
  /\ outcome.exc # "AttributeError"
  /\ (variant = "services" /\ outcome.kind = "ok") =>
        \A i \in DOMAIN todos_dados :
           /\ i \in DOMAIN outcome.df.rows
           /\ NestedMissing(todos_dados[i], "fornecedor") =>
                /\ outcome.df.rows[i]["nomeFornecedor"] = Null
                /\ outcome.df.rows[i]["cnpjFornecedor"] = Null
           /\ NestedMissing(todos_dados[i], "unidadeGestora") =>
                /\ outcome.df.rows[i]["codigoOrgao"] = Null
                /\ outcome.df.rows[i]["nomeOrgao"] = Null

(***************************************************************************)
(* C6. The currently-valid filter keeps exactly the records whose          *)
(* dataFimVigencia is present and on or after the current calendar date,   *)
(* at every moment of the day.                                             *)
(***************************************************************************)
\* C6: the rows shown after the filter are the returned rows whose
\* dataFimVigencia is a date on or after the day of the clock reading
C6_VigentesByCalendarDate ==
  (na_pagina /\ pc = "done" /\ hoje # Null) =>
     tela.df.rows =
       SelectSeq(outcome.df.rows,
                 LAMBDA r : /\ r["dataFimVigencia"].t = "ts"
                            /\ DayOf(r["dataFimVigencia"]) >= DayOf(hoje))

(***************************************************************************)
(* C8. Every table a successful call returns has the same fixed columns,   *)
(* also when the fetch yields no record.                                   *)
(***************************************************************************)
\* C8: a returned table has the columns of its variant
C8_FixedColumns ==
  outcome.kind = "ok" => outcome.df.columns = Colunas(variant)

(***************************************************************************)
(* C9. A 401 answer fails the call with the credential error, a kind of    *)
(* error distinct from the one raised for every other non-success status,  *)
(* and the request is not retried.                                         *)
(***************************************************************************)
\* C9: a 401 response ends the call with the credential message, any other
\* non-200 response with a different one, and nothing is requested after it
C9_AuthErrorDistinct ==
  \A i \in DOMAIN responses :
     /\ responses[i].status = 401 => FailedAt(i) /\ outcome.msg = MsgToken
     /\ responses[i].status \notin {200, 401} =>
          FailedAt(i) /\ outcome.msg.fmt # MsgToken.fmt

(***************************************************************************)
(* Normalisation on its own: the states in which the loop has fetched one  *)
(* page holding one record, the record drawn from every combination of the *)
(* alternate source fields.                                                *)
(***************************************************************************)
\* marks a key to leave out of a generated dict
Missing == [t |-> "missing"]
\* the dict with the keys of m that are not marked Missing
Dict(m) == [k \in {x \in DOMAIN m : m[x] # Missing} |-> m[k]]

AltVals == {Missing, Null, Str(""), Num(0), Str("A"), Str("B")}

Fornecedores ==
  {Missing, Null, Obj(EmptyDict)}
  \cup {Obj(Dict([nome |-> a, razaoSocialReceita |-> b,
                  cnpjFormatado |-> b, cnpj |-> a])) : a \in AltVals, b \in AltVals}

NormRecords ==
  {Dict([numero |-> a, numeroContrato |-> b, fornecedor |-> f,
         unidadeGestoraCompras |-> UGCompras("A")]) :
     a \in AltVals, b \in AltVals, f \in Fornecedores}

NormInit ==
  /\ codigo_orgao = Str("26000")
  /\ todos_dados \in {<< c >> : c \in NormRecords}
  /\ pagina = 2
  /\ outcome = Pending
  /\ hoje = Null
  /\ tela = TelaVazia
  /\ \/ /\ variant = "services"
        /\ na_pagina = FALSE
        /\ pc = "loop"
        /\ max_paginas = 1
        /\ ug_executora = Null
        /\ vigentes_hoje = FALSE
        /\ requests = << [pagina |-> 1, codigoOrgao |-> codigo_orgao] >>
        /\ responses = << [status |-> 200, text |-> "", json |-> todos_dados] >>
     \/ /\ variant = "app"
        /\ na_pagina = TRUE
        /\ pc = "build"
        /\ max_paginas = DefaultMaxPaginas
        /\ ug_executora = Str("A")
        /\ vigentes_hoje \in BOOLEAN
        /\ requests = << [pagina |-> 1, codigoOrgao |-> codigo_orgao],
                         [pagina |-> 2, codigoOrgao |-> codigo_orgao] >>
        /\ responses = << [status |-> 200, text |-> "", json |-> todos_dados],
                          [status |-> 200, text |-> "", json |-> << >>] >>

NormNext ==
  \/ Build
  \/ AppShow

NormSpec == NormInit /\ [][NormNext]_vars

(***************************************************************************)
(* C7. Each output field with alternate sources takes the first source, in *)
(* listed order, that counts as present: numeroContrato from numero then   *)
(* numeroContrato, nomeFornecedor from nome then razaoSocialReceita,       *)
(* cnpjFornecedor from cnpjFormatado then cnpj.                            *)
(***************************************************************************)
\* the value under key k of dict d, None when the key is absent
Val(d, k) == IF k \in DOMAIN d THEN d[k] ELSE Null

FirstNonNull(a, b) == IF a # Null THEN a ELSE b
FirstTruthy(a, b) == IF Truthy(a) THEN a ELSE b
First(rule, a, b) ==
  IF rule = "non-null" THEN FirstNonNull(a, b) ELSE FirstTruthy(a, b)

\* every emitted row i comes from raw record i and its three fields with
\* alternate sources are resolved by the rule
AlternatesResolvedBy(rule) ==
  (outcome.kind = "ok" /\ Len(outcome.df.rows) = Len(todos_dados)) =>
     \A i \in DOMAIN todos_dados :
        LET c == todos_dados[i]
            r == outcome.df.rows[i]
            f == IF "fornecedor" \in DOMAIN c THEN c["fornecedor"].f ELSE EmptyDict
        IN /\ r["numeroContrato"] = First(rule, Val(c, "numero"), Val(c, "numeroContrato"))
           /\ r["nomeFornecedor"] = First(rule, Val(f, "nome"), Val(f, "razaoSocialReceita"))
           /\ r["cnpjFornecedor"] = First(rule, Val(f, "cnpjFormatado"), Val(f, "cnpj"))

\* C7 as claimed: the first source that is not null wins
C7_FirstNonNullWins == AlternatesResolvedBy("non-null")

\* C7 as amended: the first source that is truthy wins (None, "" and 0 are
\* passed over), and the last source is taken as it is
C7_FirstTruthyWins == AlternatesResolvedBy("truthy")

\* numero and numeroContrato both present and different: numero is taken
C7_Witness ==
  /\ outcome.kind = "ok" /\ Len(outcome.df.rows) = 1 /\ Len(todos_dados) = 1
  /\ Val(todos_dados[1], "numero") = Str("A")
  /\ Val(todos_dados[1], "numeroContrato") = Str("B")
  /\ outcome.df.rows[1]["numeroContrato"] = Str("A")

====
